---- MODULE Spec2Model ----
(***************************************************************************)
(* Model of sinyal1.py: the scan loop of main(), the signal decision for   *)
(* LONG and SHORT, the positions ledger (positions.csv) and the update     *)
(* pass update_positions().                                                *)
(*                                                                         *)
(* Units.  Prices, band values and ATR are integers in hundredths          *)
(* (100.00 is 10000).  The multipliers and thresholds SL_ATR_MULT,         *)
(* TP_ATR_MULT, MIN_LONG_PCT, MIN_SHORT_PCT and RR_MIN are in tenths       *)
(* (1.2 is 12).  The stored rr is in hundredths (f"{rr:.2f}").             *)
(*                                                                         *)
(* The decision is the same at every price scale, the ledger is not:       *)
(* add_position writes prices with 8 decimals.  quantum is the number of   *)
(* price units of the run in 0.00000001: 1 for a contract priced so that   *)
(* the unit is a multiple of 0.00000001 (10000 is 100.00), 300 for a       *)
(* contract priced in the 0.0000001s (10000 is 0.000000333...).            *)
(*                                                                         *)
(* Time.  A candle timestamp is a candle index (one unit is one INTERVAL   *)
(* of 15 minutes).  The wall clock is a tick that grows with every scan    *)
(* cycle begun (a cycle sleeps REFRESH_SECONDS); now_str is the tick of    *)
(* the running cycle, and the empty string of a hit-time column is 0.      *)
(***************************************************************************)
EXTENDS Integers, Sequences, FiniteSets, TLC

\* ------------------------------------------------------------------ bounds
MaxCycles == 3
MaxTime == 1
MaxPositions == 2
MaxLen == 3

\* -------------------------------------------------------- program constants
MIN_LONG_PCT == 15
MIN_SHORT_PCT == 15
SL_ATR_MULT == 12
TP_ATR_MULT == 18
RR_MIN_DEFAULT == 12
RSI_LONG_MAX == 30
RSI_SHORT_MIN == 70

\* human_time_ms prints the local wall clock of tz.tzlocal().  In a zone with
\* daylight saving the clock falls back by one hour, that is by DstShift
\* candles of 15 minutes, at candle DstEnd; before it the clock is one hour
\* ahead.
DstShift == 4
DstEnd == 4

\* --------------------------------------------------------------- input sets
\* The symbol lists the start-up (main, lines 439-453) can come up with.
SymbolLists == {<<"BTC_USDT">>}
\* A start-up of a process that scans two contracts.
SymbolPairs == {<<"BTC_USDT", "ETH_USDT">>}
Prices == {10000}
\* (high, low) of the latest bar: quiet; both first targets; up through the
\* LONG tp2 and the SHORT stop; down through the LONG stop and the SHORT tp2;
\* through both at once.
Bars == {[high |-> 10000, low |-> 10000],
         [high |-> 10200, low |-> 9800],
         [high |-> 10400, low |-> 10000],
         [high |-> 10000, low |-> 9600],
         [high |-> 10400, low |-> 9600]}
\* Indicator values of a symbol with enough history: oversold below the lower
\* band with ATR 2.00, 0.50 and 0; overbought above the upper band with ATR
\* 2.00 and 0.50; inside the bands.
Setups == {[lower |-> 10500, upper |-> 11000, r |-> 20, a |-> 200],
           [lower |-> 10500, upper |-> 11000, r |-> 20, a |-> 50],
           [lower |-> 10500, upper |-> 11000, r |-> 20, a |-> 0],
           [lower |-> 9000, upper |-> 9500, r |-> 80, a |-> 200],
           [lower |-> 9000, upper |-> 9500, r |-> 80, a |-> 50],
           [lower |-> 9000, upper |-> 11000, r |-> 50, a |-> 200],
           [lower |-> 10500, upper |-> 11000, r |-> 50, a |-> 200]}
RrMinValues == {RR_MIN_DEFAULT, 20}
\* The price scales of the contract scanned (see Fmt8).
Quanta == {1, 300}
\* The bars and indicator values of the runs with two contracts: a quiet bar
\* and one through every level; oversold below the lower band with ATR 2.00,
\* and inside the bands.
PairBars == {[high |-> 10000, low |-> 10000],
             [high |-> 10400, low |-> 9600]}
PairSetups == {[lower |-> 10500, upper |-> 11000, r |-> 20, a |-> 200],
               [lower |-> 9000, upper |-> 11000, r |-> 50, a |-> 200]}

\* The inputs of the indicator functions: series of at most MaxLen values
\* and the period argument.
CloseVals == {1, 2, 3}
HighVals == {3}
LowVals == {1}
Periods == {1, 2}

OpenStatuses == {"PENDING", "TP1_HIT"}
TerminalStatuses == {"STOPPED", "CLOSED_TP2"}
None == "None"

VARIABLES
  symbols,                  \* the contracts to scan, fixed at start-up
  ledger,                   \* rows of positions.csv, in file order
  last_alert_candle,        \* dict (symbol, direction) -> candle time
  stats,                    \* [long, short, cycles]
  new_positions_this_cycle, \* set of position ids
  open_positions,           \* rows loaded at the top of the cycle
  latest_ohlc,              \* dict symbol -> [close, high, low]
  pc,                       \* "top" (start of while body), "scan" (for loop)
                            \* or "dead" (the process has ended)
  idx,                      \* index in symbols of the next symbol to scan
  now,                      \* tick of the wall clock, one per cycle begun
  candle,                   \* time of the latest candle the exchange serves
  RR_MIN,                   \* configured minimum risk/reward, in tenths
  quantum,                  \* price units in 0.00000001, the ledger's precision
  cycle_new,                \* history: ledger indices appended in this cycle
  emitted,                  \* history: signals this process has emitted
  fetch_failed,             \* history: symbol -> tick of the cycle in which
                            \* this process last failed to fetch it
  ind,                      \* a call of an indicator function: its name,
                            \* its arguments and what it returned or raised
  last_op                   \* history: the last step, its input and its gates

vars == <<symbols, ledger, last_alert_candle, stats, new_positions_this_cycle,
          open_positions, latest_ohlc, pc, idx, now, candle, RR_MIN,
          cycle_new, emitted, fetch_failed, ind, quantum, last_op>>

\* ---------------------------------------------------------------- helpers
human_time_ms(ms) == IF ms < DstEnd THEN ms + DstShift ELSE ms

Put(d, k, v) == [x \in (DOMAIN d) \cup {k} |-> IF x = k THEN v ELSE d[x]]

\* dict.get(k): the value, or NoCandle for Python's None
NoCandle == 0 - 1

Get(d, k) == IF k \in DOMAIN d THEN d[k] ELSE NoCandle

EmptyDict == [x \in {} |-> NoCandle]

PosId(symbol, direction, signal_time_str) ==
  <<symbol, direction, signal_time_str>>

NoStats == [long |-> 0, short |-> 0, cycles |-> 0]

\* ---------------------------------------------------------- the indicators
\* A Python float, exactly: n/d + mult * sqrt(vn/vd); or None; or the
\* exception the call raised.
Float(n, d) == [kind |-> "float", n |-> n, d |-> d, mult |-> 0, vn |-> 0, vd |-> 1]

Band(mid, mult, var) ==
  [kind |-> "float", n |-> mid.n, d |-> mid.d, mult |-> mult,
   vn |-> var.n, vd |-> var.d]

PyNone == [kind |-> "None", n |-> 0, d |-> 1, mult |-> 0, vn |-> 0, vd |-> 1]

IndexError ==
  [kind |-> "IndexError", n |-> 0, d |-> 1, mult |-> 0, vn |-> 0, vd |-> 1]

ZeroDivisionError ==
  [kind |-> "ZeroDivisionError", n |-> 0, d |-> 1, mult |-> 0, vn |-> 0, vd |-> 1]

\* s[i] of a Python list: i counts from 0, a negative i from the end
InRange(s, i) == IF i >= 0 THEN i < Len(s) ELSE 0 - i <= Len(s)

At(s, i) == IF i >= 0 THEN s[i + 1] ELSE s[Len(s) + i + 1]

\* s[-n:] for 1 <= n <= len(s)
LastN(s, n) == SubSeq(s, Len(s) - n + 1, Len(s))

RECURSIVE SumSeq(_)
SumSeq(s) == IF s = <<>> THEN 0 ELSE s[1] + SumSeq(Tail(s))

Max2(x, y) == IF x >= y THEN x ELSE y

Abs(x) == IF x >= 0 THEN x ELSE 0 - x

sma(values, period) ==
  IF Len(values) < period THEN PyNone
  ELSE Float(SumSeq(LastN(values, period)), period)

\* rsi with the avg_loss == 0 branch missing
rsi_NoZeroBranch(closes, period) ==
  IF Len(closes) < period + 1 THEN PyNone
  ELSE LET change(i) == At(closes, i - (period + 1)) - At(closes, i - (period + 2))
           gains == [i \in 1..period |-> Max2(change(i), 0)]
           losses == [i \in 1..period |-> Max2(0 - change(i), 0)]
           avg_gain == [n |-> SumSeq(gains), d |-> period]
           avg_loss == [n |-> SumSeq(losses), d |-> period]
           rs == [n |-> avg_gain.n * avg_loss.d, d |-> avg_gain.d * avg_loss.n]
           q == [n |-> 100 * rs.d, d |-> rs.d + rs.n]
       IN IF avg_loss.n = 0 THEN ZeroDivisionError
          ELSE Float(100 * q.d - q.n, q.d)

rsi(closes, period) ==
  IF Len(closes) < period + 1 THEN PyNone
  ELSE LET change(i) == At(closes, i - (period + 1)) - At(closes, i - (period + 2))
           gains == [i \in 1..period |-> Max2(change(i), 0)]
           losses == [i \in 1..period |-> Max2(0 - change(i), 0)]
           avg_gain == [n |-> SumSeq(gains), d |-> period]
           avg_loss == [n |-> SumSeq(losses), d |-> period]
           \* rs = avg_gain / avg_loss ; q = 100.0 / (1.0 + rs)
           rs == [n |-> avg_gain.n * avg_loss.d, d |-> avg_gain.d * avg_loss.n]
           q == [n |-> 100 * rs.d, d |-> rs.d + rs.n]
       IN IF avg_loss.n = 0 THEN Float(100, 1)
          ELSE Float(100 * q.d - q.n, q.d)

\* pstdev(window) ** 2 = (n * sum(x^2) - sum(x)^2) / n^2, 0.0 for one value
PVariance(window) ==
  LET n == Len(window)
  IN IF n >= 2
     THEN [n |-> n * SumSeq([i \in 1..n |-> window[i] * window[i]])
                   - SumSeq(window) * SumSeq(window),
           d |-> n * n]
     ELSE [n |-> 0, d |-> 1]

\* returns lower, mid, upper (mult = 2.0)
bollinger(closes, period) ==
  IF Len(closes) < period THEN <<PyNone, PyNone, PyNone>>
  ELSE LET mid == sma(closes, period)
           var == PVariance(LastN(closes, period))
       IN <<Band(mid, 0 - 2, var), mid, Band(mid, 2, var)>>

atr(highs, lows, closes, period) ==
  IF Len(highs) < period + 1 THEN PyNone
  ELSE IF \E i \in (0 - period)..(0 - 1) :
            ~InRange(highs, i) \/ ~InRange(lows, i) \/ ~InRange(closes, i - 1)
  THEN IndexError
  ELSE LET tr(i) == LET high == At(highs, i)
                        low == At(lows, i)
                        prev_close == At(closes, i - 1)
                    IN Max2(high - low,
                            Max2(Abs(high - prev_close), Abs(low - prev_close)))
           trs == [k \in 1..period |-> tr(k - period - 1)]
       IN Float(SumSeq(trs), Len(trs))

\* ------------------------------------------------------------- the ledger
\* rr = reward / risk if risk > 0 else 0.0, as written by f"{rr:.2f}"
Rr100(reward, risk) ==
  IF risk > 0 THEN (2 * 100 * reward + risk) \div (2 * risk) ELSE 0

\* f"{x:.8f}", read back by float(): x >= 0 to the nearest 0.00000001
Fmt8(x) == ((2 * x + quantum) \div (2 * quantum)) * quantum

add_position(rows, symbol, direction, entry, sl, tp1, tp2, signal_time_str, rr) ==
  Append(rows, [id |-> PosId(symbol, direction, signal_time_str),
                symbol |-> symbol,
                direction |-> direction,
                entry |-> Fmt8(entry),
                sl |-> Fmt8(sl),
                tp1 |-> Fmt8(tp1),
                tp2 |-> Fmt8(tp2),
                signal_time |-> signal_time_str,
                rr |-> rr,
                status |-> "PENDING",
                tp1_hit_time |-> 0,
                tp2_hit_time |-> 0,
                sl_hit_time |-> 0])

\* The part of the process state a signal changes.
Mem == [ledger |-> ledger,
        alert |-> last_alert_candle,
        stats |-> stats,
        grace |-> new_positions_this_cycle,
        cycle_new |-> cycle_new,
        emitted |-> emitted]

\* long_signal / short_signal: append the position, put its id in the grace set
signal(m, symbol, direction, price, sl, tp1, tp2, rr, close_time_ms) ==
  LET signal_time_str == human_time_ms(close_time_ms)
      rows == add_position(m.ledger, symbol, direction, price, sl, tp1, tp2,
                           signal_time_str, rr)
  IN [m EXCEPT !.ledger = rows,
               !.grace = @ \cup {PosId(symbol, direction, signal_time_str)},
               !.cycle_new = @ \cup {Len(rows)},
               !.emitted = @ \cup {<<symbol, direction, close_time_ms>>}]

\* ------------------------------------------------------ the signal decision
\* has_open with the TP1_HIT status forgotten
has_open_PendingOnly(rows, symbol, direction) ==
  \E i \in 1..Len(rows) :
    /\ rows[i].symbol = symbol
    /\ rows[i].direction = direction
    /\ rows[i].status = "PENDING"

has_open(rows, symbol, direction) ==
  \E i \in 1..Len(rows) :
    /\ rows[i].symbol = symbol
    /\ rows[i].direction = direction
    /\ rows[i].status \in OpenStatuses

long_cond(price, lower, r) == price < lower /\ r < RSI_LONG_MAX

short_cond(price, upper, r) == price > upper /\ r > RSI_SHORT_MIN

\* NewCandle with the candle check dropped
NewCandle_Always(alert, symbol, direction, close_time) == TRUE

NewCandle(alert, symbol, direction, close_time) ==
  Get(alert, <<symbol, direction>>) # close_time

\* LongLevels with the two ATR multipliers swapped
LongLevels_Swapped(price, a) ==
  LET sl == price - (TP_ATR_MULT * a) \div 10
      tp2 == price + (SL_ATR_MULT * a) \div 10
      tp1 == price + (tp2 - price) \div 2
  IN [sl |-> sl, tp1 |-> tp1, tp2 |-> tp2,
      risk |-> price - sl, reward |-> tp2 - price]

LongLevels(price, a) ==
  LET sl == price - (SL_ATR_MULT * a) \div 10
      tp2 == price + (TP_ATR_MULT * a) \div 10
      tp1 == price + (tp2 - price) \div 2
  IN [sl |-> sl, tp1 |-> tp1, tp2 |-> tp2,
      risk |-> price - sl, reward |-> tp2 - price]

ShortLevels(price, a) ==
  LET sl == price + (SL_ATR_MULT * a) \div 10
      tp2 == price - (TP_ATR_MULT * a) \div 10
      tp1 == price - (price - tp2) \div 2
  IN [sl |-> sl, tp1 |-> tp1, tp2 |-> tp2,
      risk |-> sl - price, reward |-> price - tp2]

\* pct = reward / price * 100 ; pct >= min_pct (min_pct in tenths)
PctOk(lv, price, min_pct) == lv.reward * 1000 >= min_pct * price

\* RrOk with the risk/reward gate dropped
RrOk_NoGate(lv, rr_min) == TRUE

\* rr = reward / risk if risk > 0 else 0.0 ; rr >= RR_MIN (rr_min in tenths)
RrOk(lv, rr_min) ==
  IF lv.risk > 0 THEN lv.reward * 10 >= rr_min * lv.risk ELSE 0 >= rr_min

\* Which gate of the LONG block stops the signal, or "fire".
LongGate(m, rows_open, symbol, price, lower, r, a, close_time, rr_min) ==
  LET lv == LongLevels(price, a)
  IN IF ~long_cond(price, lower, r) THEN "cond"
     ELSE IF has_open(rows_open, symbol, "LONG") THEN "open"
     ELSE IF ~NewCandle(m.alert, symbol, "LONG", close_time) THEN "dedup"
     ELSE IF ~PctOk(lv, price, MIN_LONG_PCT) THEN "pct"
     ELSE IF ~RrOk(lv, rr_min) THEN "rr"
     ELSE "fire"

ShortGate(m, rows_open, symbol, price, upper, r, a, close_time, rr_min) ==
  LET lv == ShortLevels(price, a)
  IN IF ~short_cond(price, upper, r) THEN "cond"
     ELSE IF has_open(rows_open, symbol, "SHORT") THEN "open"
     ELSE IF ~NewCandle(m.alert, symbol, "SHORT", close_time) THEN "dedup"
     ELSE IF ~PctOk(lv, price, MIN_SHORT_PCT) THEN "pct"
     ELSE IF ~RrOk(lv, rr_min) THEN "rr"
     ELSE "fire"

\* main, lines 498-516
LongBlock(m, rows_open, symbol, price, lower, r, a, close_time, rr_min) ==
  LET lv == LongLevels(price, a)
  IN IF LongGate(m, rows_open, symbol, price, lower, r, a, close_time, rr_min) = "fire"
     THEN LET m1 == signal(m, symbol, "LONG", price, lv.sl, lv.tp1, lv.tp2,
                           Rr100(lv.reward, lv.risk), close_time)
          IN [m1 EXCEPT !.stats.long = @ + 1,
                        !.alert = Put(@, <<symbol, "LONG">>, close_time)]
     ELSE m

\* main, lines 518-536
ShortBlock(m, rows_open, symbol, price, upper, r, a, close_time, rr_min) ==
  LET lv == ShortLevels(price, a)
  IN IF ShortGate(m, rows_open, symbol, price, upper, r, a, close_time, rr_min) = "fire"
     THEN LET m1 == signal(m, symbol, "SHORT", price, lv.sl, lv.tp1, lv.tp2,
                           Rr100(lv.reward, lv.risk), close_time)
          IN [m1 EXCEPT !.stats.short = @ + 1,
                        !.alert = Put(@, <<symbol, "SHORT">>, close_time)]
     ELSE m

\* ------------------------------------------------------- the update pass
\* UpdateRow with the targets checked before the stop
UpdateRow_TargetsFirst(row, bar, now_str) ==
  IF row.direction = "LONG"
  THEN IF bar.high >= row.tp2 /\ row.tp2_hit_time = 0
       THEN [row EXCEPT !.tp1_hit_time = IF @ = 0 THEN now_str ELSE @,
                        !.tp2_hit_time = now_str,
                        !.status = "CLOSED_TP2"]
       ELSE IF bar.high >= row.tp1 /\ row.tp1_hit_time = 0
       THEN [row EXCEPT !.tp1_hit_time = now_str, !.status = "TP1_HIT"]
       ELSE IF bar.low <= row.sl /\ row.sl_hit_time = 0
       THEN [row EXCEPT !.sl_hit_time = now_str, !.status = "STOPPED"]
       ELSE row
  ELSE IF bar.low <= row.tp2 /\ row.tp2_hit_time = 0
       THEN [row EXCEPT !.tp1_hit_time = IF @ = 0 THEN now_str ELSE @,
                        !.tp2_hit_time = now_str,
                        !.status = "CLOSED_TP2"]
       ELSE IF bar.low <= row.tp1 /\ row.tp1_hit_time = 0
       THEN [row EXCEPT !.tp1_hit_time = now_str, !.status = "TP1_HIT"]
       ELSE IF bar.high >= row.sl /\ row.sl_hit_time = 0
       THEN [row EXCEPT !.sl_hit_time = now_str, !.status = "STOPPED"]
       ELSE row

\* UpdateRow with tp1_hit_time written whenever tp2 is hit
UpdateRow_Tp1Overwrite(row, bar, now_str) ==
  IF row.direction = "LONG"
  THEN IF bar.low <= row.sl /\ row.sl_hit_time = 0
       THEN [row EXCEPT !.sl_hit_time = now_str, !.status = "STOPPED"]
       ELSE IF bar.high >= row.tp2 /\ row.tp2_hit_time = 0
       THEN [row EXCEPT !.tp1_hit_time = now_str,
                        !.tp2_hit_time = now_str,
                        !.status = "CLOSED_TP2"]
       ELSE IF bar.high >= row.tp1 /\ row.tp1_hit_time = 0
       THEN [row EXCEPT !.tp1_hit_time = now_str, !.status = "TP1_HIT"]
       ELSE row
  ELSE IF bar.high >= row.sl /\ row.sl_hit_time = 0
       THEN [row EXCEPT !.sl_hit_time = now_str, !.status = "STOPPED"]
       ELSE IF bar.low <= row.tp2 /\ row.tp2_hit_time = 0
       THEN [row EXCEPT !.tp1_hit_time = now_str,
                        !.tp2_hit_time = now_str,
                        !.status = "CLOSED_TP2"]
       ELSE IF bar.low <= row.tp1 /\ row.tp1_hit_time = 0
       THEN [row EXCEPT !.tp1_hit_time = now_str, !.status = "TP1_HIT"]
       ELSE row

\* UpdateRow with tp1_hit_time left empty when tp2 is reached directly
UpdateRow_NoTp1OnClose(row, bar, now_str) ==
  IF row.direction = "LONG"
  THEN IF bar.low <= row.sl /\ row.sl_hit_time = 0
       THEN [row EXCEPT !.sl_hit_time = now_str, !.status = "STOPPED"]
       ELSE IF bar.high >= row.tp2 /\ row.tp2_hit_time = 0
       THEN [row EXCEPT !.tp2_hit_time = now_str, !.status = "CLOSED_TP2"]
       ELSE IF bar.high >= row.tp1 /\ row.tp1_hit_time = 0
       THEN [row EXCEPT !.tp1_hit_time = now_str, !.status = "TP1_HIT"]
       ELSE row
  ELSE IF bar.high >= row.sl /\ row.sl_hit_time = 0
       THEN [row EXCEPT !.sl_hit_time = now_str, !.status = "STOPPED"]
       ELSE IF bar.low <= row.tp2 /\ row.tp2_hit_time = 0
       THEN [row EXCEPT !.tp2_hit_time = now_str, !.status = "CLOSED_TP2"]
       ELSE IF bar.low <= row.tp1 /\ row.tp1_hit_time = 0
       THEN [row EXCEPT !.tp1_hit_time = now_str, !.status = "TP1_HIT"]
       ELSE row

\* UpdateRow with the status left as it was when the stop is hit
UpdateRow_NoStatusOnStop(row, bar, now_str) ==
  IF row.direction = "LONG"
  THEN IF bar.low <= row.sl /\ row.sl_hit_time = 0
       THEN [row EXCEPT !.sl_hit_time = now_str]
       ELSE IF bar.high >= row.tp2 /\ row.tp2_hit_time = 0
       THEN [row EXCEPT !.tp1_hit_time = IF @ = 0 THEN now_str ELSE @,
                        !.tp2_hit_time = now_str,
                        !.status = "CLOSED_TP2"]
       ELSE IF bar.high >= row.tp1 /\ row.tp1_hit_time = 0
       THEN [row EXCEPT !.tp1_hit_time = now_str, !.status = "TP1_HIT"]
       ELSE row
  ELSE IF bar.high >= row.sl /\ row.sl_hit_time = 0
       THEN [row EXCEPT !.sl_hit_time = now_str]
       ELSE IF bar.low <= row.tp2 /\ row.tp2_hit_time = 0
       THEN [row EXCEPT !.tp1_hit_time = IF @ = 0 THEN now_str ELSE @,
                        !.tp2_hit_time = now_str,
                        !.status = "CLOSED_TP2"]
       ELSE IF bar.low <= row.tp1 /\ row.tp1_hit_time = 0
       THEN [row EXCEPT !.tp1_hit_time = now_str, !.status = "TP1_HIT"]
       ELSE row

\* One iteration of the for loop of update_positions over a row whose symbol
\* has a bar this cycle: stop first, then tp2, then tp1; first match wins.
UpdateRow(row, bar, now_str) ==
  IF row.direction = "LONG"
  THEN IF bar.low <= row.sl /\ row.sl_hit_time = 0
       THEN [row EXCEPT !.sl_hit_time = now_str, !.status = "STOPPED"]
       ELSE IF bar.high >= row.tp2 /\ row.tp2_hit_time = 0
       THEN [row EXCEPT !.tp1_hit_time = IF @ = 0 THEN now_str ELSE @,
                        !.tp2_hit_time = now_str,
                        !.status = "CLOSED_TP2"]
       ELSE IF bar.high >= row.tp1 /\ row.tp1_hit_time = 0
       THEN [row EXCEPT !.tp1_hit_time = now_str, !.status = "TP1_HIT"]
       ELSE row
  ELSE IF row.direction = "SHORT"
  THEN IF bar.high >= row.sl /\ row.sl_hit_time = 0
       THEN [row EXCEPT !.sl_hit_time = now_str, !.status = "STOPPED"]
       ELSE IF bar.low <= row.tp2 /\ row.tp2_hit_time = 0
       THEN [row EXCEPT !.tp1_hit_time = IF @ = 0 THEN now_str ELSE @,
                        !.tp2_hit_time = now_str,
                        !.status = "CLOSED_TP2"]
       ELSE IF bar.low <= row.tp1 /\ row.tp1_hit_time = 0
       THEN [row EXCEPT !.tp1_hit_time = now_str, !.status = "TP1_HIT"]
       ELSE row
  ELSE row

\* Eligible with the status check dropped
Eligible_AnyStatus(row, grace, ohlc) ==
  /\ row.id \notin grace
  /\ row.symbol \in DOMAIN ohlc

\* Eligible with the grace check dropped
Eligible_NoGrace(row, grace, ohlc) ==
  /\ row.status \in OpenStatuses
  /\ row.symbol \in DOMAIN ohlc

\* The guards of lines 349-359: rows the pass looks at.
Eligible(row, grace, ohlc) ==
  /\ row.id \notin grace
  /\ row.status \in OpenStatuses
  /\ row.symbol \in DOMAIN ohlc

\* update_positions with every row that has a bar evaluated
update_positions_AllRows(rows, grace, ohlc, now_str) ==
  [i \in 1..Len(rows) |->
     IF rows[i].symbol \in DOMAIN ohlc
     THEN UpdateRow(rows[i], ohlc[rows[i].symbol], now_str)
     ELSE rows[i]]

\* update_positions that saves only the rows still open after the pass
update_positions_DropClosed(rows, grace, ohlc, now_str) ==
  LET IsOpen(row) == row.status \in OpenStatuses
  IN SelectSeq([i \in 1..Len(rows) |->
                  IF Eligible(rows[i], grace, ohlc)
                  THEN UpdateRow(rows[i], ohlc[rows[i].symbol], now_str)
                  ELSE rows[i]],
               IsOpen)

update_positions(rows, grace, ohlc, now_str) ==
  [i \in 1..Len(rows) |->
     IF Eligible(rows[i], grace, ohlc)
     THEN UpdateRow(rows[i], ohlc[rows[i].symbol], now_str)
     ELSE rows[i]]

\* modified with the flag set by every pass
modified_Always(rows, updated) == TRUE

\* The flag `modified` of update_positions: set in every branch that assigns
\* to a row (lines 378, 388, 396, 406, 416, 424), and each of them gives the
\* row a new status.
modified(rows, updated) == updated # rows

\* ------------------------------------------------------------ the machine
NoInput == [price |-> 0, lower |-> 0, upper |-> 0, r |-> 0, a |-> 0, ct |-> 0]

Op(op, symbol, lgate, sgate, input) ==
  [op |-> op, symbol |-> symbol, lgate |-> lgate, sgate |-> sgate,
   input |-> input, saved |-> FALSE]

\* No indicator call is looked at.
NoCall == [f |-> "idle", highs |-> <<>>, lows |-> <<>>, closes |-> <<>>,
           period |-> 1, result |-> <<>>]

InitFrom(lists) ==
  /\ symbols \in lists
  /\ ledger = <<>>
  /\ last_alert_candle = EmptyDict
  /\ stats = NoStats
  /\ new_positions_this_cycle = {}
  /\ open_positions = <<>>
  /\ latest_ohlc = EmptyDict
  /\ pc = "top"
  /\ idx = 1
  /\ now = 0
  /\ candle = 0
  /\ RR_MIN \in RrMinValues
  /\ quantum \in Quanta
  /\ cycle_new = {}
  /\ emitted = {}
  /\ fetch_failed = EmptyDict
  /\ last_op = Op("init", None, None, None, NoInput)

Init == InitFrom(SymbolLists) /\ ind = NoCall

\* main, lines 458-462: the top of the while body
CycleStart ==
  /\ pc = "top"
  /\ now < MaxCycles
  /\ stats' = [stats EXCEPT !.cycles = @ + 1]
  /\ latest_ohlc' = EmptyDict
  /\ open_positions' = ledger
  /\ pc' = "scan"
  /\ idx' = 1
  /\ cycle_new' = {}
  /\ now' = now + 1
  /\ last_op' = Op("cycle", None, None, None, NoInput)
  /\ UNCHANGED <<ind, quantum, symbols, ledger, last_alert_candle, new_positions_this_cycle,
                 candle, RR_MIN, emitted, fetch_failed>>

\* An exception leaves main: the process ends and its memory is gone;
\* positions.csv stays as it is.
Die(op) ==
  /\ last_alert_candle' = EmptyDict
  /\ stats' = NoStats
  /\ new_positions_this_cycle' = {}
  /\ open_positions' = <<>>
  /\ latest_ohlc' = EmptyDict
  /\ pc' = "dead"
  /\ idx' = 1
  /\ cycle_new' = {}
  /\ emitted' = {}
  /\ fetch_failed' = EmptyDict
  /\ last_op' = Op(op, None, None, None, NoInput)
  /\ UNCHANGED <<ind, quantum, symbols, ledger, candle, RR_MIN>>

\* FetchFail without the try/except around the body of the for loop
FetchFail_Fatal ==
  /\ pc = "scan"
  /\ idx <= Len(symbols)
  /\ UNCHANGED now
  /\ Die("fetch_fail")

\* main, lines 465-466 and 538-539: get_klines raises, the symbol is skipped
FetchFail ==
  /\ pc = "scan"
  /\ idx <= Len(symbols)
  /\ idx' = idx + 1
  /\ fetch_failed' = Put(fetch_failed, symbols[idx], now)
  /\ last_op' = Op("fetch_fail", symbols[idx], None, None, NoInput)
  /\ UNCHANGED <<ind, quantum, symbols, ledger, last_alert_candle, stats, new_positions_this_cycle,
                 open_positions, latest_ohlc, pc, now, candle, RR_MIN,
                 cycle_new, emitted>>

\* main, lines 467-468: no closes, the symbol is skipped
EmptyCloses ==
  /\ pc = "scan"
  /\ idx <= Len(symbols)
  /\ idx' = idx + 1
  /\ last_op' = Op("empty", symbols[idx], None, None, NoInput)
  /\ UNCHANGED <<ind, quantum, symbols, ledger, last_alert_candle, stats, new_positions_this_cycle,
                 open_positions, latest_ohlc, pc, now, candle, RR_MIN,
                 cycle_new, emitted, fetch_failed>>

\* IndicatorUnavailableWith with the None check of line 481 dropped and the
\* missing ATR taken as 2.00: the LONG signal is sent
IndicatorUnavailableWith_NoCheck(bars) ==
  /\ pc = "scan"
  /\ idx <= Len(symbols)
  /\ Len(ledger) < MaxPositions
  /\ \E ct \in candle..MaxTime, price \in Prices, bar \in bars :
       LET lv == LongLevels(price, 200)
           m1 == signal(Mem, symbols[idx], "LONG", price, lv.sl, lv.tp1, lv.tp2,
                        Rr100(lv.reward, lv.risk), ct)
       IN /\ ledger' = m1.ledger
          /\ new_positions_this_cycle' = m1.grace
          /\ cycle_new' = m1.cycle_new
          /\ emitted' = m1.emitted
          /\ latest_ohlc' = Put(latest_ohlc, symbols[idx],
                                [close |-> price, high |-> bar.high, low |-> bar.low])
          /\ candle' = ct
  /\ idx' = idx + 1
  /\ last_op' = Op("unavailable", symbols[idx], None, None, NoInput)
  /\ UNCHANGED <<ind, quantum, symbols, last_alert_candle, stats, open_positions, pc, now,
                 RR_MIN, fetch_failed>>

\* main, lines 470-482 (and 538-539): the bar is recorded, then bollinger,
\* rsi or atr returns None and line 482 continues, or one of them raises and
\* line 539 continues.
IndicatorUnavailableWith(bars) ==
  /\ pc = "scan"
  /\ idx <= Len(symbols)
  /\ \E ct \in candle..MaxTime, price \in Prices, bar \in bars :
       /\ latest_ohlc' = Put(latest_ohlc, symbols[idx],
                             [close |-> price, high |-> bar.high, low |-> bar.low])
       /\ candle' = ct
  /\ idx' = idx + 1
  /\ last_op' = Op("unavailable", symbols[idx], None, None, NoInput)
  /\ UNCHANGED <<ind, quantum, symbols, ledger, last_alert_candle, stats, new_positions_this_cycle,
                 open_positions, pc, now, RR_MIN, cycle_new, emitted,
                 fetch_failed>>

IndicatorUnavailable == IndicatorUnavailableWith(Bars)

\* main, lines 470-536: the bar is recorded, then the LONG and SHORT blocks
EvaluateWith(bars, setups) ==
  /\ pc = "scan"
  /\ idx <= Len(symbols)
  /\ \E ct \in candle..MaxTime, price \in Prices, bar \in bars, u \in setups :
       LET symbol == symbols[idx]
           lgate == LongGate(Mem, open_positions, symbol, price, u.lower, u.r, u.a,
                             ct, RR_MIN)
           m1 == LongBlock(Mem, open_positions, symbol, price, u.lower, u.r, u.a,
                           ct, RR_MIN)
           sgate == ShortGate(m1, open_positions, symbol, price, u.upper, u.r, u.a,
                              ct, RR_MIN)
           m2 == ShortBlock(m1, open_positions, symbol, price, u.upper, u.r, u.a,
                            ct, RR_MIN)
       IN /\ Len(m2.ledger) <= MaxPositions
          /\ ledger' = m2.ledger
          /\ last_alert_candle' = m2.alert
          /\ stats' = m2.stats
          /\ new_positions_this_cycle' = m2.grace
          /\ cycle_new' = m2.cycle_new
          /\ emitted' = m2.emitted
          /\ latest_ohlc' = Put(latest_ohlc, symbol,
                                [close |-> price, high |-> bar.high, low |-> bar.low])
          /\ candle' = ct
          /\ last_op' = Op("evaluate", symbol, lgate, sgate,
                          [price |-> price, lower |-> u.lower,
                           upper |-> u.upper, r |-> u.r, a |-> u.a,
                           ct |-> ct])
  /\ idx' = idx + 1
  /\ UNCHANGED <<ind, quantum, symbols, open_positions, pc, now, RR_MIN, fetch_failed>>

Evaluate == EvaluateWith(Bars, Setups)

\* main, lines 541-546: update_positions(latest_ohlc), then the sleep.
\* positions.csv is rewritten (save_positions, line 428) if modified;
\* last_op.saved records whether it was.
UpdatePositions ==
  /\ pc = "scan"
  /\ idx > Len(symbols)
  /\ LET rows == update_positions(ledger, new_positions_this_cycle,
                                  latest_ohlc, now)
     IN /\ ledger' = IF modified(ledger, rows) THEN rows ELSE ledger
        /\ last_op' = [Op("update", None, None, None, NoInput)
                         EXCEPT !.saved = modified(ledger, rows)]
  /\ new_positions_this_cycle' = {}
  /\ pc' = "top"
  /\ UNCHANGED <<ind, quantum, symbols, last_alert_candle, stats, open_positions,
                 latest_ohlc, idx, now, candle, RR_MIN, cycle_new, emitted,
                 fetch_failed>>

\* main, line 462: load_positions raises (open or read of positions.csv
\* fails) outside the try of the for loop, so the exception leaves main.
LoadFail ==
  /\ pc = "top"
  /\ now < MaxCycles
  /\ now' = now + 1
  /\ Die("load_fail")

\* main, lines 514/534 and 538-539: the signal's add_position raises (the
\* open for append of positions.csv fails) inside the try of the for loop;
\* except Exception: continue goes on with the next symbol.  The bar is
\* already recorded (line 475); the rest of the block, and the SHORT block
\* after a LONG signal, are not executed.
AppendFail ==
  /\ pc = "scan"
  /\ idx <= Len(symbols)
  /\ \E ct \in candle..MaxTime, price \in Prices, bar \in Bars, u \in Setups :
       LET symbol == symbols[idx]
           lgate == LongGate(Mem, open_positions, symbol, price, u.lower, u.r, u.a,
                             ct, RR_MIN)
           sgate == ShortGate(Mem, open_positions, symbol, price, u.upper, u.r, u.a,
                              ct, RR_MIN)
       IN /\ lgate = "fire" \/ sgate = "fire"
          /\ latest_ohlc' = Put(latest_ohlc, symbol,
                                [close |-> price, high |-> bar.high, low |-> bar.low])
          /\ candle' = ct
          /\ last_op' = Op("append_fail", symbol, lgate, sgate,
                          [price |-> price, lower |-> u.lower,
                           upper |-> u.upper, r |-> u.r, a |-> u.a,
                           ct |-> ct])
  /\ idx' = idx + 1
  /\ UNCHANGED <<ind, quantum, symbols, ledger, last_alert_candle, stats, new_positions_this_cycle,
                 open_positions, pc, now, RR_MIN, cycle_new, emitted,
                 fetch_failed>>

\* main, line 542: update_positions raises, at its load_positions (line 340)
\* or at the open of its save_positions (line 428, reached when a row
\* changed), outside any try, so the exception leaves main.
UpdateFail ==
  /\ pc = "scan"
  /\ idx > Len(symbols)
  /\ UNCHANGED now
  /\ Die("update_fail")

\* The process is stopped and started again: positions.csv is kept (line 456
\* creates it only when it is missing), the module globals start over.
RestartFrom(lists) ==
  /\ symbols' \in lists
  /\ last_alert_candle' = EmptyDict
  /\ stats' = NoStats
  /\ new_positions_this_cycle' = {}
  /\ open_positions' = <<>>
  /\ latest_ohlc' = EmptyDict
  /\ pc' = "top"
  /\ idx' = 1
  /\ cycle_new' = {}
  /\ emitted' = {}
  /\ fetch_failed' = EmptyDict
  /\ last_op' = Op("restart", None, None, None, NoInput)
  /\ UNCHANGED <<ind, quantum, ledger, now, candle, RR_MIN>>

Restart == RestartFrom(SymbolLists)

Next ==
  \/ CycleStart
  \/ FetchFail
  \/ EmptyCloses
  \/ IndicatorUnavailable
  \/ Evaluate
  \/ UpdatePositions
  \/ LoadFail
  \/ AppendFail
  \/ UpdateFail
  \/ Restart

Spec == Init /\ [][Next]_vars

\* One run of the program started with two contracts to scan, with
\* positions.csv readable and writable throughout.
InitPair == InitFrom(SymbolPairs) /\ ind = NoCall

IndicatorUnavailablePair == IndicatorUnavailableWith(PairBars)

EvaluatePair == EvaluateWith(PairBars, PairSetups)

NextPair ==
  \/ CycleStart
  \/ FetchFail
  \/ EmptyCloses
  \/ IndicatorUnavailablePair
  \/ EvaluatePair
  \/ UpdatePositions

SpecPair == InitPair /\ [][NextPair]_vars

\* The indicator functions on their own: any series of at most MaxLen values
\* each, any period, one call.
Series(vals) == UNION {[1..n -> vals] : n \in 0..MaxLen}

InitInd ==
  /\ InitFrom(SymbolLists)
  /\ ind \in [f : {"idle"}, highs : Series(HighVals), lows : Series(LowVals),
               closes : Series(CloseVals), period : Periods, result : {<<>>}]

MainVars == <<symbols, ledger, last_alert_candle, stats, new_positions_this_cycle,
              open_positions, latest_ohlc, pc, idx, now, candle, RR_MIN,
              cycle_new, emitted, fetch_failed, quantum, last_op>>

CallSma ==
  /\ ind.f = "idle"
  /\ ind' = [ind EXCEPT !.f = "sma", !.result = <<sma(ind.closes, ind.period)>>]
  /\ UNCHANGED MainVars

CallRsi ==
  /\ ind.f = "idle"
  /\ ind' = [ind EXCEPT !.f = "rsi", !.result = <<rsi(ind.closes, ind.period)>>]
  /\ UNCHANGED MainVars

CallBollinger ==
  /\ ind.f = "idle"
  /\ ind' = [ind EXCEPT !.f = "bollinger",
                        !.result = bollinger(ind.closes, ind.period)]
  /\ UNCHANGED MainVars

CallAtr ==
  /\ ind.f = "idle"
  /\ ind' = [ind EXCEPT !.f = "atr",
                        !.result = <<atr(ind.highs, ind.lows, ind.closes,
                                         ind.period)>>]
  /\ UNCHANGED MainVars

NextInd ==
  \/ CallSma
  \/ CallRsi
  \/ CallBollinger
  \/ CallAtr

SpecInd == InitInd /\ [][NextInd]_vars

\* ===================================================================
\* Properties
\* ===================================================================
Rows == 1..Len(ledger)

\* The step is one whole update pass (not a stuttering step after one).
IsUpdateStep == pc = "scan" /\ last_op'.op = "update"

\* The step is the evaluation of one symbol with all indicators available.
IsEvaluateStep == pc = "scan" /\ idx' = idx + 1 /\ last_op'.op = "evaluate"

CrossesStop(row, bar) ==
  IF row.direction = "LONG" THEN bar.low <= row.sl ELSE bar.high >= row.sl

CrossesTp1(row, bar) ==
  IF row.direction = "LONG" THEN bar.high >= row.tp1 ELSE bar.low <= row.tp1

CrossesTp2(row, bar) ==
  IF row.direction = "LONG" THEN bar.high >= row.tp2 ELSE bar.low <= row.tp2

\* C1: a position whose status is STOPPED or CLOSED_TP2 is never changed in
\* any field, nor removed, by any later step.
C1_TerminalFrozen ==
  [][\A i \in Rows :
       ledger[i].status \in TerminalStatuses
         => (i <= Len(ledger') /\ ledger'[i] = ledger[i])]_vars

\* C1 witness: an update pass has just run over a position that was stopped
\* in an earlier pass, with a bar of its symbol that reaches its tp2.
C1_Witness ==
  /\ last_op.op = "update"
  /\ \E i \in Rows :
       /\ ledger[i].status = "STOPPED"
       /\ ledger[i].sl_hit_time < now
       /\ ledger[i].tp2_hit_time = 0
       /\ ledger[i].symbol \in DOMAIN latest_ohlc
       /\ CrossesTp2(ledger[i], latest_ohlc[ledger[i].symbol])

Edges == {<<"PENDING", "TP1_HIT">>, <<"PENDING", "CLOSED_TP2">>,
          <<"PENDING", "STOPPED">>, <<"TP1_HIT", "STOPPED">>,
          <<"TP1_HIT", "CLOSED_TP2">>}

\* C2: every position enters the ledger as PENDING, and a status changes
\* only along PENDING->TP1_HIT, PENDING->CLOSED_TP2, PENDING->STOPPED,
\* TP1_HIT->STOPPED and TP1_HIT->CLOSED_TP2.
C2_StatusEdges ==
  [][/\ Len(ledger') >= Len(ledger)
     /\ \A i \in 1..Len(ledger') :
          IF i <= Len(ledger)
          THEN \/ ledger'[i].status = ledger[i].status
               \/ <<ledger[i].status, ledger'[i].status>> \in Edges
          ELSE ledger'[i].status = "PENDING"]_vars

\* C2 witness: a position that went PENDING -> TP1_HIT -> STOPPED in two
\* different passes.
C2_Witness ==
  \E i \in Rows :
    /\ ledger[i].status = "STOPPED"
    /\ ledger[i].tp1_hit_time > 0
    /\ ledger[i].tp1_hit_time < ledger[i].sl_hit_time

\* C3: in an update pass, an open position outside its grace cycle whose bar
\* crosses its stop and also its tp2 or tp1 ends the pass STOPPED with
\* sl_hit_time set to the pass's time and nothing else changed.
C3_StopPrecedence ==
  [][IsUpdateStep =>
       \A i \in Rows :
         (/\ i \notin cycle_new
          /\ ledger[i].status \in OpenStatuses
          /\ ledger[i].symbol \in DOMAIN latest_ohlc
          /\ CrossesStop(ledger[i], latest_ohlc[ledger[i].symbol])
          /\ \/ CrossesTp2(ledger[i], latest_ohlc[ledger[i].symbol])
             \/ CrossesTp1(ledger[i], latest_ohlc[ledger[i].symbol]))
         => ledger'[i] = [ledger[i] EXCEPT !.status = "STOPPED",
                                           !.sl_hit_time = now]]_vars

\* C3 witness: the pass that has just run stopped a position on a bar that
\* crosses both its stop and its tp2.
C3_Witness ==
  /\ last_op.op = "update"
  /\ \E i \in Rows :
       /\ ledger[i].status = "STOPPED"
       /\ ledger[i].sl_hit_time = now
       /\ ledger[i].tp2_hit_time = 0
       /\ ledger[i].symbol \in DOMAIN latest_ohlc
       /\ CrossesStop(ledger[i], latest_ohlc[ledger[i].symbol])
       /\ CrossesTp2(ledger[i], latest_ohlc[ledger[i].symbol])

\* C4: the update pass of the cycle that created a position leaves it as it
\* was created; the grace set holds exactly the ids of the positions created
\* in the running cycle and is empty after every update pass; a position not
\* created in the running cycle is evaluated against its bar.
C4_GraceCycle ==
  [][/\ new_positions_this_cycle' \subseteq {ledger'[i].id : i \in cycle_new'}
     /\ IsUpdateStep =>
          (/\ new_positions_this_cycle = {ledger[i].id : i \in cycle_new}
           /\ new_positions_this_cycle' = {}
           /\ \A i \in Rows :
                IF i \in cycle_new
                THEN /\ ledger'[i] = ledger[i]
                     /\ ledger[i].status = "PENDING"
                     /\ ledger[i].tp1_hit_time = 0
                     /\ ledger[i].tp2_hit_time = 0
                     /\ ledger[i].sl_hit_time = 0
                ELSE (/\ ledger[i].status \in OpenStatuses
                      /\ ledger[i].symbol \in DOMAIN latest_ohlc
                      /\ CrossesStop(ledger[i], latest_ohlc[ledger[i].symbol]))
                     => ledger'[i].status = "STOPPED")]_vars

\* C4 witness: the pass has just run, a position created in this cycle is
\* still PENDING although this cycle's bar crosses its stop.
C4_Witness ==
  /\ last_op.op = "update"
  /\ \E i \in cycle_new :
       /\ ledger[i].status = "PENDING"
       /\ ledger[i].symbol \in DOMAIN latest_ohlc
       /\ CrossesStop(ledger[i], latest_ohlc[ledger[i].symbol])

\* C5: a process never emits a second signal for a (symbol, direction,
\* candle) it has already emitted one for: every position an evaluation
\* appends is a signal that was not in the set of emitted signals.
C5_SignalDedup ==
  [][IsEvaluateStep =>
       Len(ledger') - Len(ledger)
         = Cardinality(emitted') - Cardinality(emitted)]_vars

\* C5 witness: the LONG conditions hold, no LONG is open, the first position
\* of this candle is already terminal, and the evaluation was stopped by the
\* candle check.
C5_Witness ==
  /\ last_op.op = "evaluate"
  /\ last_op.lgate = "dedup"
  /\ <<last_op.symbol, "LONG", last_op.input.ct>> \in emitted
  /\ \E i \in Rows :
       /\ ledger[i].symbol = last_op.symbol
       /\ ledger[i].direction = "LONG"
       /\ ledger[i].signal_time = human_time_ms(last_op.input.ct)
       /\ ledger[i].status \in TerminalStatuses

\* C6: no two rows of the ledger have the same id.
C6_UniqueIds ==
  \A i, j \in Rows : i # j => ledger[i].id # ledger[j].id

OpenOf(rows, symbol, direction) ==
  {i \in 1..Len(rows) : /\ rows[i].symbol = symbol
                        /\ rows[i].direction = direction
                        /\ rows[i].status \in OpenStatuses}

\* C7: an evaluation never appends a position for a (symbol, direction) that
\* has a PENDING or TP1_HIT position in the ledger, and the ledger never
\* holds two non-terminal positions of one (symbol, direction).
C7_OneOpenPerDirection ==
  [][/\ \A i \in (Len(ledger) + 1)..Len(ledger') :
          OpenOf(ledger, ledger'[i].symbol, ledger'[i].direction) = {}
     /\ \A i \in 1..Len(ledger') :
          Cardinality(OpenOf(ledger', ledger'[i].symbol,
                             ledger'[i].direction)) <= 1]_vars

\* C7 witness: the LONG conditions held for a symbol with a TP1_HIT LONG and
\* the evaluation was stopped by the open-position check.
C7_Witness ==
  /\ last_op.op = "evaluate"
  /\ last_op.lgate = "open"
  /\ \E i \in Rows :
       /\ ledger[i].symbol = last_op.symbol
       /\ ledger[i].direction = "LONG"
       /\ ledger[i].status = "TP1_HIT"

\* C8: a tp1_hit_time that is set is never cleared or overwritten.
C8_Tp1WriteOnce ==
  [][\A i \in Rows :
       ledger[i].tp1_hit_time # 0
         => /\ i <= Len(ledger')
            /\ ledger'[i].tp1_hit_time = ledger[i].tp1_hit_time]_vars

\* C8 witness: a position closed at tp2 by a later pass than the one that
\* set its tp1_hit_time, which it still holds.
C8_Witness ==
  \E i \in Rows :
    /\ ledger[i].status = "CLOSED_TP2"
    /\ ledger[i].tp1_hit_time > 0
    /\ ledger[i].tp1_hit_time < ledger[i].tp2_hit_time
    /\ ledger[i].tp2_hit_time = now

\* The decision of the specification, from the input of the evaluation:
\* potential_pct >= min_pct, and RR = reward / risk >= RR_MIN with
\* reward = TP_ATR_MULT * atr and risk = SL_ATR_MULT * atr (RR is 0 if risk <= 0).
PctPasses(in, min_pct) == TP_ATR_MULT * in.a * 100 >= min_pct * in.price

RrPasses(in) ==
  /\ SL_ATR_MULT * in.a > 0
  /\ TP_ATR_MULT * in.a * 10 >= RR_MIN * SL_ATR_MULT * in.a

LongEntry(in) == in.price < in.lower /\ in.r < 30

ShortEntry(in) == in.price > in.upper /\ in.r > 70

\* v is the price num/den as the ledger holds it, written with 8 decimals.
Written(v, num, den) == 2 * Abs(den * v - num) <= den * quantum

\* C9: an evaluation appends a LONG position exactly when price < lower band,
\* rsi < 30, potential_pct >= MIN_LONG_PCT and RR >= RR_MIN, with no open LONG
\* and a new candle; the position has entry = price, sl = price - 1.2 atr,
\* tp2 = price + 1.8 atr, tp1 = the midpoint of price and tp2; for price 100,
\* lower band 105, rsi 20, atr 2 and RR_MIN 1.2 it has sl 97.6, tp1 101.8,
\* tp2 103.6 and rr 1.50.
C9_LongDecision ==
  [][IsEvaluateStep =>
       LET in == last_op'.input
           s == last_op'.symbol
           n == Len(ledger) + 1
           fired == Len(ledger') = n /\ ledger'[n].direction = "LONG"
           expected == /\ LongEntry(in)
                       /\ OpenOf(ledger, s, "LONG") = {}
                       /\ Get(last_alert_candle, <<s, "LONG">>) # in.ct
                       /\ PctPasses(in, MIN_LONG_PCT)
                       /\ RrPasses(in)
       IN /\ fired <=> expected
          /\ fired =>
               /\ ledger'[n].symbol = s
               /\ ledger'[n].status = "PENDING"
               /\ Written(ledger'[n].entry, in.price, 1)
               /\ Written(ledger'[n].sl, 10 * in.price - SL_ATR_MULT * in.a, 10)
               /\ Written(ledger'[n].tp2, 10 * in.price + TP_ATR_MULT * in.a, 10)
               /\ Written(ledger'[n].tp1, 20 * in.price + TP_ATR_MULT * in.a, 20)
               /\ stats'.long = stats.long + 1
               /\ Get(last_alert_candle', <<s, "LONG">>) = in.ct
          /\ (fired /\ in.price = 10000 /\ in.lower = 10500 /\ in.r = 20
                /\ in.a = 200 /\ RR_MIN = RR_MIN_DEFAULT /\ quantum = 1) =>
               /\ ledger'[n].sl = 9760
               /\ ledger'[n].tp1 = 10180
               /\ ledger'[n].tp2 = 10360
               /\ ledger'[n].rr = 150]_vars

\* C9 witness: the evaluation of price 100, lower band 105, rsi 20, atr 2
\* under the default parameters has just appended its LONG position.
C9_Witness ==
  /\ last_op.op = "evaluate"
  /\ last_op.lgate = "fire"
  /\ RR_MIN = RR_MIN_DEFAULT
  /\ quantum = 1
  /\ last_op.input.price = 10000 /\ last_op.input.lower = 10500
  /\ last_op.input.r = 20 /\ last_op.input.a = 200
  /\ Len(ledger) > 0
  /\ ledger[Len(ledger)].direction = "LONG"
  /\ ledger[Len(ledger)].sl = 9760
  /\ ledger[Len(ledger)].tp1 = 10180
  /\ ledger[Len(ledger)].tp2 = 10360
  /\ ledger[Len(ledger)].rr = 150

\* C10: an evaluation whose entry conditions hold for a direction but whose
\* potential_pct is below the direction's minimum or whose RR is below RR_MIN
\* leaves the ledger, the alert memory, the counters and the grace set as
\* they were.
C10_GateRejectFrame ==
  [][IsEvaluateStep =>
       LET in == last_op'.input
           long_rejected == /\ LongEntry(in)
                            /\ ~(PctPasses(in, MIN_LONG_PCT) /\ RrPasses(in))
           short_rejected == /\ ShortEntry(in)
                             /\ ~(PctPasses(in, MIN_SHORT_PCT) /\ RrPasses(in))
       IN ((long_rejected /\ ~ShortEntry(in))
             \/ (short_rejected /\ ~LongEntry(in)))
            => /\ ledger' = ledger
               /\ last_alert_candle' = last_alert_candle
               /\ stats' = stats
               /\ new_positions_this_cycle' = new_positions_this_cycle]_vars

\* C10 witness: with RR_MIN 2.0 the evaluation of price 100, lower band 105,
\* rsi 20, atr 2 (RR 1.5) was stopped by the RR gate, in a process that holds
\* no LONG and no alert for this candle.
C10_Witness ==
  /\ last_op.op = "evaluate"
  /\ last_op.lgate = "rr"
  /\ RR_MIN = 20
  /\ last_op.input.price = 10000 /\ last_op.input.lower = 10500
  /\ last_op.input.r = 20 /\ last_op.input.a = 200
  /\ ledger = <<>>
  /\ last_alert_candle = EmptyDict
  /\ stats.long = 0

\* A step in which a read or a write of positions.csv failed.
IsLedgerFailure ==
  pc # "dead" /\ last_op'.op \in {"load_fail", "append_fail", "update_fail"}

\* C11: every ledger read or write failure is process-fatal: after a step in
\* which loading the ledger, appending a position or rewriting the ledger
\* failed, the process has stopped.
C11_LedgerFailureFatal ==
  [][IsLedgerFailure => pc' = "dead"]_vars

\* C12: a candle-fetch failure for one symbol is local to that symbol and
\* that cycle.  The step of the failure leaves the process running in the
\* for loop with the next symbol (or the update pass) next, and changes
\* neither the ledger nor the memory of the process nor the bars recorded;
\* every step of the scan handles the symbol whose turn it is, whatever
\* failed before; the update pass is what follows the last symbol; and every
\* cycle starts again at the first symbol of the same list.
C12_FetchFailureLocal ==
  [][/\ last_op'.op = "fetch_fail" =>
          /\ pc' = "scan"
          /\ idx' = idx + 1
          /\ last_op'.symbol = symbols[idx]
          /\ UNCHANGED <<ind, quantum, symbols, ledger, last_alert_candle, stats,
                         new_positions_this_cycle, open_positions, latest_ohlc,
                         now>>
     /\ (pc = "scan" /\ idx <= Len(symbols)) =>
          /\ pc' = "scan"
          /\ idx' = idx + 1
          /\ last_op'.symbol = symbols[idx]
     /\ (pc = "scan" /\ idx > Len(symbols)) =>
          /\ last_op'.op = "update"
          /\ pc' = "top"
     /\ pc = "top" =>
          /\ pc' = "scan"
          /\ idx' = 1
          /\ symbols' = symbols]_vars

\* C12 witness: the fetch of BTC_USDT failed in the previous cycle; in that
\* cycle ETH_USDT was still evaluated and the update pass stopped its
\* position; in this cycle BTC_USDT has been fetched and evaluated again.
C12_Witness ==
  /\ last_op.op = "evaluate"
  /\ last_op.symbol = "BTC_USDT"
  /\ Get(fetch_failed, "BTC_USDT") = now - 1
  /\ \E i \in Rows :
       /\ ledger[i].symbol = "ETH_USDT"
       /\ ledger[i].sl_hit_time = now - 1

\* C13: when a required indicator is unavailable for a symbol, the symbol is
\* skipped for the cycle: the step appends no position, emits no signal
\* (ledger, alert memory, counters and grace set stay as they were) and the
\* process goes on in the for loop with the next symbol.
C13_IndicatorUnavailableSkips ==
  [][last_op'.op = "unavailable" =>
       /\ pc' = "scan"
       /\ idx' = idx + 1
       /\ last_op'.symbol = symbols[idx]
       /\ UNCHANGED <<ind, quantum, symbols, ledger, last_alert_candle, stats,
                      new_positions_this_cycle, open_positions, emitted,
                      cycle_new>>]_vars

\* C13 witness: a symbol with no position and no alert was fetched, its bar
\* recorded, and skipped for an unavailable indicator.
C13_Witness ==
  /\ last_op.op = "unavailable"
  /\ pc = "scan"
  /\ last_op.symbol \in DOMAIN latest_ohlc
  /\ ledger = <<>>
  /\ last_alert_candle = EmptyDict
  /\ new_positions_this_cycle = {}

\* C14: sma, rsi, bollinger and atr return None, and do not raise, whenever
\* the input holds fewer values than they need: sma and bollinger fewer than
\* period closes, rsi fewer than period + 1 closes, atr fewer than period + 1
\* values in any of highs, lows and closes.
C14_SentinelOnShortInput ==
  /\ (ind.f = "sma" /\ Len(ind.closes) < ind.period)
       => ind.result = <<PyNone>>
  /\ (ind.f = "bollinger" /\ Len(ind.closes) < ind.period)
       => ind.result = <<PyNone, PyNone, PyNone>>
  /\ (ind.f = "rsi" /\ Len(ind.closes) < ind.period + 1)
       => ind.result = <<PyNone>>
  /\ (ind.f = "atr" /\ \/ Len(ind.highs) < ind.period + 1
                        \/ Len(ind.lows) < ind.period + 1
                        \/ Len(ind.closes) < ind.period + 1)
       => ind.result = <<PyNone>>

\* The changes closes[k+1] - closes[k] of the last `period` steps of a series,
\* counted from the front.
RECURSIVE GainFrom(_, _)
GainFrom(closes, k) ==
  IF k >= Len(closes) THEN 0
  ELSE Max2(closes[k + 1] - closes[k], 0) + GainFrom(closes, k + 1)

RECURSIVE LossFrom(_, _)
LossFrom(closes, k) ==
  IF k >= Len(closes) THEN 0
  ELSE Max2(closes[k] - closes[k + 1], 0) + LossFrom(closes, k + 1)

\* C16: for closes of length at least period + 1, rsi returns exactly 100.0
\* when the last `period` changes contain no loss, and otherwise
\* 100 - 100 / (1 + avg_gain / avg_loss) over those changes.
C16_RsiValue ==
  (ind.f = "rsi" /\ Len(ind.closes) >= ind.period + 1) =>
    LET first == Len(ind.closes) - ind.period
        g == GainFrom(ind.closes, first)
        l == LossFrom(ind.closes, first)
        r == ind.result[1]
    IN /\ Len(ind.result) = 1
       /\ IF \A k \in first..(Len(ind.closes) - 1) :
               ind.closes[k + 1] >= ind.closes[k]
          THEN r = Float(100, 1)
          ELSE /\ r.kind = "float"
               /\ r.mult = 0
               /\ r.d # 0
               \* r = 100 - 100 / (1 + (g/period) / (l/period))
               /\ r.n * (l + g) = r.d * (100 * (l + g) - 100 * l)

\* C16 witness: rsi of the rising series 1, 2, 3 with period 2 is 100.0,
\* from the zero-loss branch.
C16_Witness ==
  /\ ind.f = "rsi"
  /\ ind.closes = <<1, 2, 3>>
  /\ ind.period = 2
  /\ ind.result = <<Float(100, 1)>>

\* The columns of a position that are written once, by add_position.
Created(row) ==
  <<row.id, row.symbol, row.direction, row.entry, row.sl, row.tp1, row.tp2,
    row.signal_time, row.rr>>

C17_DirectClose ==
  [][IsUpdateStep =>
       \A i \in Rows :
         (/\ i \notin cycle_new
          /\ ledger[i].status \in OpenStatuses
          /\ ledger[i].symbol \in DOMAIN latest_ohlc
          /\ CrossesTp2(ledger[i], latest_ohlc[ledger[i].symbol])
          /\ ~CrossesStop(ledger[i], latest_ohlc[ledger[i].symbol]))
         => IF ledger[i].status = "PENDING"
            THEN ledger'[i] = [ledger[i] EXCEPT !.status = "CLOSED_TP2",
                                                !.tp1_hit_time = now,
                                                !.tp2_hit_time = now]
            ELSE ledger'[i] = [ledger[i] EXCEPT !.status = "CLOSED_TP2",
                                                !.tp2_hit_time = now]]_vars

\* C17 witness: the pass that has just run closed a position at tp2 that
\* had not reached tp1 before: both hit-times are the time of this pass.
C17_Witness ==
  /\ last_op.op = "update"
  /\ \E i \in Rows :
       /\ ledger[i].status = "CLOSED_TP2"
       /\ ledger[i].tp1_hit_time = now
       /\ ledger[i].tp2_hit_time = now
       /\ ledger[i].sl_hit_time = 0
       /\ ledger[i].symbol \in DOMAIN latest_ohlc
       /\ ~CrossesStop(ledger[i], latest_ohlc[ledger[i].symbol])

\* C18: an update pass leaves every open position whose symbol has no bar in
\* this cycle as it was, and rewrites positions.csv exactly when the pass
\* changed a position.
C18_NoBarNoChange ==
  [][IsUpdateStep =>
       /\ \A i \in Rows :
            (ledger[i].status \in OpenStatuses
               /\ ledger[i].symbol \notin DOMAIN latest_ohlc)
            => ledger'[i] = ledger[i]
       /\ last_op'.saved <=> ledger' # ledger]_vars

\* C18 witness: BTC_USDT has no bar in this cycle and its open position,
\* created in an earlier cycle, is as it was, while the same pass changed
\* the position of ETH_USDT and rewrote the ledger.
C18_Witness ==
  /\ last_op.op = "update"
  /\ last_op.saved
  /\ "BTC_USDT" \notin DOMAIN latest_ohlc
  /\ \E i, j \in Rows :
       /\ ledger[i].symbol = "BTC_USDT"
       /\ ledger[i].status = "PENDING"
       /\ ledger[j].symbol = "ETH_USDT"
       /\ ledger[j].status = "STOPPED"
       /\ ledger[j].sl_hit_time = now

\* C19: in every state of the ledger the status of each position agrees
\* with its hit-times: PENDING iff all three are empty; TP1_HIT iff
\* tp1_hit_time is set and the other two are empty; CLOSED_TP2 iff
\* tp2_hit_time is set, and then tp1_hit_time is set and sl_hit_time is
\* empty; STOPPED iff sl_hit_time is set, and then tp2_hit_time is empty.
C19_StatusAgreesWithHitTimes ==
  \A i \in Rows :
    LET row == ledger[i]
        tp1 == row.tp1_hit_time # 0
        tp2 == row.tp2_hit_time # 0
        sl == row.sl_hit_time # 0
    IN /\ row.status \in OpenStatuses \cup TerminalStatuses
       /\ row.status = "PENDING" <=> (~tp1 /\ ~tp2 /\ ~sl)
       /\ row.status = "TP1_HIT" <=> (tp1 /\ ~tp2 /\ ~sl)
       /\ row.status = "CLOSED_TP2" <=> tp2
       /\ tp2 => (tp1 /\ ~sl)
       /\ row.status = "STOPPED" <=> sl
       /\ sl => ~tp2

\* C19 witness: the ledger holds a position stopped after its tp1 and a
\* position closed at tp2.
C19_Witness ==
  \E i, j \in Rows :
    /\ ledger[i].status = "STOPPED"
    /\ ledger[i].tp1_hit_time # 0
    /\ ledger[i].sl_hit_time # 0
    /\ ledger[j].status = "CLOSED_TP2"
    /\ ledger[j].tp2_hit_time # 0

\* C20: every position in the ledger has strictly ordered levels:
\* sl < entry < tp1 < tp2 for LONG, tp2 < tp1 < entry < sl for SHORT.
C20_OrderedLevels ==
  \A i \in Rows :
    IF ledger[i].direction = "LONG"
    THEN /\ ledger[i].sl < ledger[i].entry
         /\ ledger[i].entry < ledger[i].tp1
         /\ ledger[i].tp1 < ledger[i].tp2
    ELSE /\ ledger[i].tp2 < ledger[i].tp1
         /\ ledger[i].tp1 < ledger[i].entry
         /\ ledger[i].entry < ledger[i].sl

====
